---- MODULE Spec2Model ----
(***************************************************************************)
(* Model of diff_submissions.py: two checkbox submissions are extracted    *)
(* from their archives, simplified to "job id -> outcome" mappings,        *)
(* compared, and the differences are printed.                              *)
(*                                                                         *)
(* Python strings that the program compares, sorts or concatenates (job    *)
(* ids, outcomes, escape sequences) are sequences of code points, so that  *)
(* equality is exact, ordering is the code-point ordering of sorted(), and *)
(* "+" is \o.  dicts are functions; the keys of a dict are its DOMAIN.     *)
(***************************************************************************)
EXTENDS Integers, Sequences, FiniteSets, TLC

VARIABLES
    pc,           \* <<step, n>>: position in main(); n = submission being loaded
    argv,         \* sys.argv
    handles,      \* the archives (1 or 2) whose tarfile handle is open
    raw,          \* the unmarshalled submission.json not yet simplified
    submission1,  \* main's submission1
    submission2,  \* main's submission2
    only1,        \* diff_submissions' results, as main unpacks them
    only2,
    different,
    swapped,      \* diff_submissions(submission2, submission1) (SpecDiff)
    again,        \* a second simplify_submission(raw)          (SpecNormalize)
    outcome,      \* colorize_outcome's argument                (SpecColor)
    colored,      \* colorize_outcome's result                  (SpecColor)
    out,          \* lines printed to sys.stdout
    err,          \* lines written to sys.stderr
    exitStatus    \* the process's exit status once it has ended, else -1

vars == <<pc, argv, handles, raw, submission1, submission2, only1, only2,
          different, swapped, again, outcome, colored, out, err, exitStatus>>

----------------------------------------------------------------------------
(* Bounds *)

\* longest "results" list of a submission.json
MaxResults == 2
\* longest outcome string handed to colorize_outcome in SpecColor
MaxOutcomeLen == 4

----------------------------------------------------------------------------
(* Strings as code points *)

job1  == <<106, 111, 98, 49>>          \* "job1"
job10 == <<106, 111, 98, 49, 48>>      \* "job10"
job2  == <<106, 111, 98, 50>>          \* "job2"
job3  == <<106, 111, 98, 51>>          \* "job3"
JobIds == {job1, job10, job2, job3}

pass     == <<112, 97, 115, 115>>      \* "pass"
fail     == <<102, 97, 105, 108>>      \* "fail"
PassCap  == <<80, 97, 115, 115>>       \* "Pass"
Outcomes == {pass, fail, PassCap}

\* "\033[1;32;5m", "\033[1;31;5m", "\033[0m"
GreenStart == <<27, 91, 49, 59, 51, 50, 59, 53, 109>>
RedStart   == <<27, 91, 49, 59, 51, 49, 59, 53, 109>>
Reset      == <<27, 91, 48, 109>>

\* the letters of "pass" and "fail", and ESC
OutcomeAlphabet == {112, 97, 115, 102, 105, 108, 27}

RECURSIVE SeqsOfLen(_, _)
SeqsOfLen(S, n) ==
    IF n = 0 THEN {<<>>}
    ELSE {Append(s, x) : s \in SeqsOfLen(S, n - 1), x \in S}

SeqsUpTo(S, n) == UNION {SeqsOfLen(S, k) : k \in 0..n}

\* Python's str "<": the first differing code point decides, a proper prefix
\* is smaller.
RECURSIVE StrLess(_, _)
StrLess(a, b) ==
    IF b = <<>> THEN FALSE
    ELSE IF a = <<>> THEN TRUE
    ELSE IF Head(a) # Head(b) THEN Head(a) < Head(b)
    ELSE StrLess(Tail(a), Tail(b))

----------------------------------------------------------------------------
(* dicts *)

EmptyDict == <<>>

----------------------------------------------------------------------------
(* The environment: what an archive may hold *)

\* one element of "results": with both fields, or lacking one of them
Entries ==
    {[id |-> j, status |-> s] : j \in JobIds, s \in Outcomes}
        \cup {[id |-> job1]} \cup {[status |-> pass]}

\* submission.json unmarshalled: with a "results" list, or without one
RawRecords ==
    {[results |-> rs] : rs \in SeqsUpTo(Entries, MaxResults)}
        \cup {[title |-> "no results"]}

NoRecord == [none |-> TRUE]

----------------------------------------------------------------------------
(* simplify_submission *)

\* the outcome of a call: the exception it raised (<<>> when none) and the
\* value it returned
KeyError(key) == [raised |-> <<"KeyError", key>>, value |-> EmptyDict]

Returned(v) == [raised |-> <<>>, value |-> v]

\* d[k] = v of a buggy comprehension that keeps the first entry of an id
SetItemKeepFirst(d, k, v) ==
    [x \in (DOMAIN d) \cup {k} |-> IF x \in DOMAIN d THEN d[x] ELSE v]

\* d[k] = v
SetItem(d, k, v) == [x \in (DOMAIN d) \cup {k} |-> IF x = k THEN v ELSE d[x]]

\* {result["id"]: result["status"] for result in results}, entry by entry:
\* the key is evaluated before the value, a missing field raises KeyError and
\* the dict built so far is lost.
RECURSIVE DictComprehension(_, _)
DictComprehension(results, d) ==
    IF results = <<>> THEN Returned(d)
    ELSE LET result == Head(results) IN
         IF "id" \notin DOMAIN result THEN KeyError("id")
         ELSE IF "status" \notin DOMAIN result THEN KeyError("status")
         ELSE DictComprehension(Tail(results),
                                SetItem(d, result.id, result.status))

simplify_submission(submission) ==
    IF "results" \notin DOMAIN submission THEN KeyError("results")
    ELSE DictComprehension(submission.results, EmptyDict)

----------------------------------------------------------------------------
(* diff_submissions *)

\* str.lower() on the ASCII letters
Lower(s) == [i \in DOMAIN s |-> IF s[i] \in 65..90 THEN s[i] + 32 ELSE s[i]]

\* outcomes compared after case-folding
diff_submissions_casefold(s1, s2) ==
    LET jobs1 == DOMAIN s1
        jobs2 == DOMAIN s2
        both  == jobs1 \cap jobs2
    IN  <<jobs1 \ jobs2, jobs2 \ jobs1,
          [job \in {j \in both : Lower(s1[j]) # Lower(s2[j])}
              |-> <<s1[job], s2[job]>>]>>

\* only1 = jobs1, the subtraction forgotten
diff_submissions_nosubtract(s1, s2) ==
    LET jobs1 == DOMAIN s1
        jobs2 == DOMAIN s2
        both  == jobs1 \cap jobs2
    IN  <<jobs1, jobs2 \ jobs1,
          [job \in {j \in both : s1[j] # s2[j]} |-> <<s1[job], s2[job]>>]>>

\* only2 = jobs1 - jobs2, the line above copied
diff_submissions_copied(s1, s2) ==
    LET jobs1 == DOMAIN s1
        jobs2 == DOMAIN s2
        both  == jobs1 \cap jobs2
    IN  <<jobs1 \ jobs2, jobs1 \ jobs2,
          [job \in {j \in both : s1[j] # s2[j]} |-> <<s1[job], s2[job]>>]>>

\* different without its "if": every common job is reported
diff_submissions_nofilter(s1, s2) ==
    LET jobs1 == DOMAIN s1
        jobs2 == DOMAIN s2
        both  == jobs1 \cap jobs2
    IN  <<jobs1 \ jobs2, jobs2 \ jobs1,
          [job \in both |-> <<s1[job], s2[job]>>]>>

diff_submissions(s1, s2) ==
    LET jobs1 == DOMAIN s1
        jobs2 == DOMAIN s2
        only1_ == jobs1 \ jobs2
        only2_ == jobs2 \ jobs1
        both  == jobs1 \cap jobs2
        different_ == [job \in {j \in both : s1[j] # s2[j]}
                          |-> <<s1[job], s2[job]>>]
    IN  <<only1_, only2_, different_>>

----------------------------------------------------------------------------
(* colorize_outcome *)

\* the two colours exchanged
colorize_outcome_swapped(o) ==
    LET prefix == IF o = pass THEN RedStart
                  ELSE IF o = fail THEN GreenStart
                  ELSE <<>>
    IN  prefix \o o \o Reset

colorize_outcome(o) ==
    LET prefix == IF o = pass THEN GreenStart
                  ELSE IF o = fail THEN RedStart
                  ELSE <<>>
    IN  prefix \o o \o Reset

----------------------------------------------------------------------------
(* sorted *)

\* the jobs in descending order
RECURSIVE sorted_reverse(_)
sorted_reverse(S) ==
    IF S = {} THEN <<>>
    ELSE LET m == CHOOSE x \in S : \A y \in S \ {x} : StrLess(y, x)
         IN  <<m>> \o sorted_reverse(S \ {m})

\* the least element first, then the rest sorted
RECURSIVE SortedFrom(_)
SortedFrom(S) ==
    IF S = {} THEN <<>>
    ELSE LET m == CHOOSE x \in S : \A y \in S \ {x} : StrLess(x, y)
         IN  <<m>> \o SortedFrom(S \ {m})

\* sorted(iterable) of a set of str
sorted(S) == SortedFrom(S)

----------------------------------------------------------------------------
(* main *)

Usage == "Usage: diff_submissions.py submission1.tar.xz submission2.tar.xz"

\* sys.argv of an invocation with 0 to 3 arguments
CommandLine ==
    <<"diff_submissions.py", "submission1.tar.xz", "submission2.tar.xz",
      "submission3.tar.xz">>

Step(name) == <<name, 0>>

\* an output line: the f-string's text and the values put into it (paths in
\* labels, job ids and outcomes in args)
Line(fmt, labels, args) == [fmt |-> fmt, labels |-> labels, args |-> args]

\* "with tarfile.open(...) as tar:" left, by return or by exception
WithExitLeak(hs, n) == hs

WithExit(hs, n) == hs \ {n}

\* an uncaught exception (or SystemExit with a message) ends the process: the
\* message or traceback goes to stderr, the exit status is 1
RaiseExitZero(e) ==
    /\ pc' = Step("exited")
    /\ err' = Append(err, e)
    /\ exitStatus' = 0

Raise(e) ==
    /\ pc' = Step("exited")
    /\ err' = Append(err, e)
    /\ exitStatus' = 1

\* if len(sys.argv) != 3: raise SystemExit(usage)
CheckArgs ==
    /\ pc = Step("main")
    /\ IF Len(argv) # 3
       THEN Raise(<<"SystemExit", Usage>>)
       ELSE /\ pc' = <<"open", 1>>
            /\ UNCHANGED <<err, exitStatus>>
    /\ UNCHANGED <<argv, handles, raw, submission1, submission2, only1, only2,
                   different, swapped, again, outcome, colored, out>>

\* tarfile.open(xz_file, "r:xz"): the path is missing or is no xz tar archive,
\* or the archive is opened
TarfileOpen ==
    /\ pc[1] = "open"
    /\ \/ /\ Raise(<<"ReadError", argv[pc[2] + 1]>>)
          /\ UNCHANGED handles
       \/ /\ handles' = handles \cup {pc[2]}
          /\ pc' = <<"extractfile", pc[2]>>
          /\ UNCHANGED <<err, exitStatus>>
    /\ UNCHANGED <<argv, raw, submission1, submission2, only1, only2,
                   different, swapped, again, outcome, colored, out>>

\* tar.extractfile("submission.json"): KeyError when the archive has no such
\* member; None for a member that is no regular file, on which .read() raises
\* AttributeError; else the member's file object
ExtractFile ==
    /\ pc[1] = "extractfile"
    /\ \/ /\ Raise(<<"KeyError", "submission.json">>)
          /\ handles' = WithExit(handles, pc[2])
       \/ /\ Raise(<<"AttributeError", "read">>)
          /\ handles' = WithExit(handles, pc[2])
       \/ /\ pc' = <<"read", pc[2]>>
          /\ UNCHANGED <<handles, err, exitStatus>>
    /\ UNCHANGED <<argv, raw, submission1, submission2, only1, only2,
                   different, swapped, again, outcome, colored, out>>

\* json_file.read(); return json.loads(json_data): the data is no JSON, or it
\* is unmarshalled and returned; both ways leave the with block
ReadAndLoad ==
    /\ pc[1] = "read"
    /\ handles' = WithExit(handles, pc[2])
    /\ \/ /\ Raise(<<"JSONDecodeError", argv[pc[2] + 1]>>)
          /\ UNCHANGED raw
       \/ /\ \E rec \in RawRecords : raw' = rec
          /\ pc' = <<"simplify", pc[2]>>
          /\ UNCHANGED <<err, exitStatus>>
    /\ UNCHANGED <<argv, submission1, submission2, only1, only2,
                   different, swapped, again, outcome, colored, out>>

\* submissionN = simplify_submission(<the record extracted>)
Simplify ==
    /\ pc[1] = "simplify"
    /\ LET r == simplify_submission(raw) IN
       IF r.raised # <<>>
       THEN /\ Raise(r.raised)
            /\ UNCHANGED <<submission1, submission2>>
       ELSE /\ IF pc[2] = 1
               THEN /\ submission1' = r.value
                    /\ pc' = <<"open", 2>>
                    /\ UNCHANGED submission2
               ELSE /\ submission2' = r.value
                    /\ pc' = Step("diff")
                    /\ UNCHANGED submission1
            /\ UNCHANGED <<err, exitStatus>>
    /\ raw' = NoRecord
    /\ UNCHANGED <<argv, handles, only1, only2, different, swapped, again,
                   outcome, colored, out>>

\* only1, only2, different = diff_submissions(submission1, submission2)
Diff ==
    /\ pc = Step("diff")
    /\ LET d == diff_submissions(submission1, submission2) IN
       /\ only1' = d[1]
       /\ only2' = d[2]
       /\ different' = d[3]
    /\ pc' = Step("report1")
    /\ UNCHANGED <<argv, handles, raw, submission1, submission2, swapped,
                   again, outcome, colored, out, err, exitStatus>>

\* the section of the jobs of `only`, found in `submission`, under the label
SectionOnlyAlways(only, submission, label) ==
    <<Line("Jobs only in the {}:", <<label>>, <<>>)>> \o
    [i \in 1..Cardinality(only) |->
        Line("  '{}': '{}'", <<>>,
             <<sorted(only)[i], colorize_outcome(submission[sorted(only)[i]])>>)]

SectionOnly(only, submission, label) ==
    IF only # {}
    THEN <<Line("Jobs only in the {}:", <<label>>, <<>>)>> \o
         [i \in 1..Cardinality(only) |->
            Line("  '{}': '{}'", <<>>,
                 <<sorted(only)[i],
                   colorize_outcome(submission[sorted(only)[i]])>>)]
    ELSE <<>>

\* if only1: ...
PrintOnly1 ==
    /\ pc = Step("report1")
    /\ out' = out \o SectionOnly(only1, submission1, argv[2])
    /\ pc' = Step("report2")
    /\ UNCHANGED <<argv, handles, raw, submission1, submission2, only1, only2,
                   different, swapped, again, outcome, colored, err,
                   exitStatus>>

\* if only2: ...
PrintOnly2 ==
    /\ pc = Step("report2")
    /\ out' = out \o SectionOnly(only2, submission2, argv[3])
    /\ pc' = Step("report3")
    /\ UNCHANGED <<argv, handles, raw, submission1, submission2, only1, only2,
                   different, swapped, again, outcome, colored, err,
                   exitStatus>>

\* the orders in which a dict built from a set may be iterated
Orders(S) ==
    {s \in SeqsOfLen(S, Cardinality(S)) :
        \A i, j \in DOMAIN s : i # j => s[i] # s[j]}

\* the section of the jobs whose outcomes differ, the jobs taken in `order`
SectionDifferent(diff, order, label1, label2) ==
    IF DOMAIN diff # {}
    THEN <<Line("Jobs with different outcomes:", <<>>, <<>>),
           Line("  {} vs {}", <<label1, label2>>, <<>>)>> \o
         [i \in DOMAIN order |->
            Line("  '{}': '{} ' vs '{}'", <<>>,
                 <<order[i], diff[order[i]][1], diff[order[i]][2]>>)]
    ELSE <<>>

\* if different: ...
PrintDifferent ==
    /\ pc = Step("report3")
    /\ \E order \in Orders(DOMAIN different) :
          out' = out \o SectionDifferent(different, order, argv[2], argv[3])
    /\ pc' = Step("return")
    /\ UNCHANGED <<argv, handles, raw, submission1, submission2, only1, only2,
                   different, swapped, again, outcome, colored, err,
                   exitStatus>>

\* main returns and the interpreter exits
Exit ==
    /\ pc = Step("return")
    /\ pc' = Step("exited")
    /\ exitStatus' = 0
    /\ UNCHANGED <<argv, handles, raw, submission1, submission2, only1, only2,
                   different, swapped, again, outcome, colored, out, err>>

Init ==
    /\ pc = Step("main")
    /\ argv \in {SubSeq(CommandLine, 1, n) : n \in 1..Len(CommandLine)}
    /\ handles = {}
    /\ raw = NoRecord
    /\ submission1 = EmptyDict
    /\ submission2 = EmptyDict
    /\ only1 = {}
    /\ only2 = {}
    /\ different = EmptyDict
    /\ swapped = <<>>
    /\ again = EmptyDict
    /\ outcome = <<>>
    /\ colored = <<>>
    /\ out = <<>>
    /\ err = <<>>
    /\ exitStatus = -1

Next ==
    \/ CheckArgs
    \/ TarfileOpen
    \/ ExtractFile
    \/ ReadAndLoad
    \/ Simplify
    \/ Diff
    \/ PrintOnly1
    \/ PrintOnly2
    \/ PrintDifferent
    \/ Exit

Spec == Init /\ [][Next]_vars

----------------------------------------------------------------------------
(* diff_submissions on every pair of simplified submissions *)

\* the simplified submissions over JobIds and Outcomes
AllDicts == UNION {[D -> Outcomes] : D \in SUBSET JobIds}

Idle ==
    /\ argv = <<CommandLine[1]>>
    /\ handles = {}
    /\ out = <<>>
    /\ exitStatus = -1

InitDiff ==
    /\ pc = <<"diff_submissions", 0>>
    /\ submission1 \in AllDicts
    /\ submission2 \in AllDicts
    /\ raw = NoRecord
    /\ only1 = {}
    /\ only2 = {}
    /\ different = EmptyDict
    /\ swapped = <<>>
    /\ again = EmptyDict
    /\ outcome = <<>>
    /\ colored = <<>>
    /\ err = <<>>
    /\ Idle

\* only1, only2, different = diff_submissions(submission1, submission2)
CallDiff ==
    /\ pc = <<"diff_submissions", 0>>
    /\ LET d == diff_submissions(submission1, submission2) IN
       /\ only1' = d[1]
       /\ only2' = d[2]
       /\ different' = d[3]
    /\ pc' = <<"diff_submissions", 1>>
    /\ UNCHANGED <<argv, handles, raw, submission1, submission2, swapped,
                   again, outcome, colored, out, err, exitStatus>>

\* swapped = diff_submissions(submission2, submission1)
CallDiffSwapped ==
    /\ pc = <<"diff_submissions", 1>>
    /\ swapped' = diff_submissions(submission2, submission1)
    /\ pc' = <<"diff_submissions", 2>>
    /\ UNCHANGED <<argv, handles, raw, submission1, submission2, only1, only2,
                   different, again, outcome, colored, out, err, exitStatus>>

NextDiff ==
    \/ CallDiff
    \/ CallDiffSwapped

SpecDiff == InitDiff /\ [][NextDiff]_vars

----------------------------------------------------------------------------
(* simplify_submission on every unmarshalled record, called twice *)

InitNormalize ==
    /\ pc = <<"simplify_submission", 0>>
    /\ raw \in RawRecords
    /\ submission1 = EmptyDict
    /\ submission2 = EmptyDict
    /\ only1 = {}
    /\ only2 = {}
    /\ different = EmptyDict
    /\ swapped = <<>>
    /\ again = EmptyDict
    /\ outcome = <<>>
    /\ colored = <<>>
    /\ err = <<>>
    /\ Idle

\* submission1 = simplify_submission(raw), or the exception it raises
CallSimplify ==
    /\ pc = <<"simplify_submission", 0>>
    /\ LET r == simplify_submission(raw) IN
       IF r.raised # <<>>
       THEN /\ err' = Append(err, r.raised)
            /\ pc' = <<"raised", 0>>
            /\ UNCHANGED submission1
       ELSE /\ submission1' = r.value
            /\ pc' = <<"simplify_submission", 1>>
            /\ UNCHANGED err
    /\ UNCHANGED <<argv, handles, raw, submission2, only1, only2, different,
                   swapped, again, outcome, colored, out, exitStatus>>

\* again = simplify_submission(raw)
CallSimplifyAgain ==
    /\ pc = <<"simplify_submission", 1>>
    /\ again' = simplify_submission(raw).value
    /\ pc' = <<"simplify_submission", 2>>
    /\ UNCHANGED <<argv, handles, raw, submission1, submission2, only1, only2,
                   different, swapped, outcome, colored, out, err, exitStatus>>

NextNormalize ==
    \/ CallSimplify
    \/ CallSimplifyAgain

SpecNormalize == InitNormalize /\ [][NextNormalize]_vars

----------------------------------------------------------------------------
(* colorize_outcome on every short outcome string *)

OutcomeStrings == SeqsUpTo(OutcomeAlphabet, MaxOutcomeLen) \cup Outcomes

InitColor ==
    /\ pc = <<"colorize_outcome", 0>>
    /\ outcome \in OutcomeStrings
    /\ colored = <<>>
    /\ raw = NoRecord
    /\ submission1 = EmptyDict
    /\ submission2 = EmptyDict
    /\ only1 = {}
    /\ only2 = {}
    /\ different = EmptyDict
    /\ swapped = <<>>
    /\ again = EmptyDict
    /\ err = <<>>
    /\ Idle

\* colored = colorize_outcome(outcome)
CallColorize ==
    /\ pc = <<"colorize_outcome", 0>>
    /\ colored' = colorize_outcome(outcome)
    /\ pc' = <<"colorize_outcome", 1>>
    /\ UNCHANGED <<argv, handles, raw, submission1, submission2, only1, only2,
                   different, swapped, again, outcome, out, err, exitStatus>>

NextColor == CallColorize

SpecColor == InitColor /\ [][NextColor]_vars

----------------------------------------------------------------------------
(* Claims about diff_submissions (SpecDiff) *)

\* equality of two strings, code point by code point
SameString(a, b) == Len(a) = Len(b) /\ \A i \in 1..Len(a) : a[i] = b[i]

\* the submissions of the worked example
ExampleA == [j \in {job1, job2} |-> IF j = job1 THEN pass ELSE fail]
ExampleB == [j \in {job1, job2, job3} |-> IF j = job3 THEN fail ELSE pass]

DiffCalled == pc[1] = "diff_submissions" /\ pc[2] >= 1

\* C1: diff_submissions(A, B) returns onlyA = keys(A) \ keys(B), onlyB =
\* keys(B) \ keys(A), and changed = the mapping, on the ids of both whose
\* outcomes are not the same string, to the pair (A[id], B[id]); on the example
\* A = {job1: pass, job2: fail}, B = {job1: pass, job2: pass, job3: fail} it
\* returns {}, {job3}, {job2: (fail, pass)}.
C1_DiffContract ==
    DiffCalled =>
        /\ only1 \subseteq JobIds
        /\ only2 \subseteq JobIds
        /\ DOMAIN different \subseteq JobIds
        /\ \A j \in JobIds :
            /\ j \in only1 <=> (j \in DOMAIN submission1 /\ j \notin DOMAIN submission2)
            /\ j \in only2 <=> (j \in DOMAIN submission2 /\ j \notin DOMAIN submission1)
            /\ j \in DOMAIN different <=>
                  /\ j \in DOMAIN submission1
                  /\ j \in DOMAIN submission2
                  /\ ~SameString(submission1[j], submission2[j])
            /\ j \in DOMAIN different =>
                  different[j] = <<submission1[j], submission2[j]>>
        /\ (submission1 = ExampleA /\ submission2 = ExampleB) =>
              /\ only1 = {}
              /\ only2 = {job3}
              /\ DOMAIN different = {job2}
              /\ different[job2] = <<fail, pass>>

\* the example has been diffed
C1_Witness ==
    /\ DiffCalled
    /\ submission1 = ExampleA
    /\ submission2 = ExampleB
    /\ only2 = {job3}
    /\ job2 \in DOMAIN different

\* the ids of both submissions with the same outcome
SameOutcome ==
    {j \in DOMAIN submission1 \cap DOMAIN submission2 :
        submission1[j] = submission2[j]}

ExactlyOne(j, S1, S2, S3) ==
    /\ j \in S1 \cup S2 \cup S3
    /\ ~(j \in S1 /\ j \in S2)
    /\ ~(j \in S1 /\ j \in S3)
    /\ ~(j \in S2 /\ j \in S3)

\* C2: the three outputs are pairwise disjoint, every key of A is in exactly
\* one of onlyA, keys(changed), same-outcome, and every key of B in exactly one
\* of onlyB, keys(changed), same-outcome.
C2_Partition ==
    DiffCalled =>
        /\ only1 \cap only2 = {}
        /\ only1 \cap DOMAIN different = {}
        /\ only2 \cap DOMAIN different = {}
        /\ \A j \in DOMAIN submission1 :
              ExactlyOne(j, only1, DOMAIN different, SameOutcome)
        /\ \A j \in DOMAIN submission2 :
              ExactlyOne(j, only2, DOMAIN different, SameOutcome)

\* a diff with all four parts inhabited
C2_Witness ==
    /\ DiffCalled
    /\ only1 # {}
    /\ only2 # {}
    /\ DOMAIN different # {}
    /\ SameOutcome # {}

\* C3: onlyA(A,B) = onlyB(B,A), onlyB(A,B) = onlyA(B,A), changed(A,B) and
\* changed(B,A) have the same keys, and changed(A,B)[k] is changed(B,A)[k]
\* with its components swapped.
C3_Antisymmetry ==
    (pc = <<"diff_submissions", 2>>) =>
        /\ only1 = swapped[2]
        /\ only2 = swapped[1]
        /\ DOMAIN different = DOMAIN swapped[3]
        /\ \A k \in DOMAIN different :
              different[k] = <<swapped[3][k][2], swapped[3][k][1]>>

\* both diffs taken of a pair with jobs on either side only and a changed one
C3_Witness ==
    /\ pc = <<"diff_submissions", 2>>
    /\ only1 # {}
    /\ only2 # {}
    /\ only1 # only2
    /\ DOMAIN different # {}

----------------------------------------------------------------------------
(* Claims about colorize_outcome (SpecColor) *)

Colorized == pc = <<"colorize_outcome", 1>>

\* the last n code points of s
Suffix(s, n) == SubSeq(s, Len(s) - n + 1, Len(s))

\* the first n code points of s
Prefix(s, n) == SubSeq(s, 1, n)

\* C5 as claimed: "pass" is wrapped in green-start and reset, "fail" in
\* red-start and reset, and every other outcome s is returned as s itself, with
\* no control sequence before or after it.
C5_PassThrough ==
    Colorized =>
        /\ outcome = pass => colored = GreenStart \o pass \o Reset
        /\ outcome = fail => colored = RedStart \o fail \o Reset
        /\ outcome \notin {pass, fail} => colored = outcome

\* C5 as amended: "pass" is wrapped in green-start and reset, "fail" in
\* red-start and reset, and every other outcome s is returned as s followed by
\* the reset sequence, with no colour-start sequence before it.
C5_ResetAlways ==
    Colorized =>
        /\ outcome = pass => colored = GreenStart \o pass \o Reset
        /\ outcome = fail => colored = RedStart \o fail \o Reset
        /\ outcome \notin {pass, fail} =>
              /\ Len(colored) = Len(outcome) + Len(Reset)
              /\ Prefix(colored, Len(outcome)) = outcome
              /\ Suffix(colored, Len(Reset)) = Reset

\* an outcome other than "pass" and "fail" has been colorized
C5_Witness ==
    /\ Colorized
    /\ outcome = PassCap
    /\ colored = PassCap \o Reset

----------------------------------------------------------------------------
(* Claims about simplify_submission (SpecNormalize) *)

\* "results" is there and every entry has "id" and "status"
WellFormed(rec) ==
    /\ "results" \in DOMAIN rec
    /\ \A i \in DOMAIN rec.results :
          {"id", "status"} \subseteq DOMAIN rec.results[i]

\* the places of the entries of rec that carry id j
Carrying(rec, j) == {i \in DOMAIN rec.results : rec.results[i].id = j}

\* the greatest element of a non-empty set of numbers
Last(S) == CHOOSE i \in S : \A k \in S : k <= i

----------------------------------------------------------------------------
(* Claims about a run of main (Spec) *)

Reporting == pc[1] \in {"report1", "report2", "report3", "return"}

\* C4: diffing a submission against an equal one yields onlyA = {}, onlyB = {}
\* and changed = {}, and the run on two such submissions prints nothing and
\* exits with status 0.
C4_SelfDiffSilent ==
    [][ /\ (pc = Step("diff") /\ submission1 = submission2) =>
              /\ only1' = {}
              /\ only2' = {}
              /\ different' = EmptyDict
        /\ (Reporting /\ submission1 = submission2) =>
              /\ out' = <<>>
              /\ err' = <<>>
              /\ pc'[1] \in {"report2", "report3", "return", "exited"}
              /\ pc'[1] = "exited" => exitStatus' = 0
      ]_vars

\* a run on two equal, non-empty submissions has ended
C4_Witness ==
    /\ pc = Step("exited")
    /\ exitStatus = 0
    /\ submission1 = submission2
    /\ submission1 # EmptyDict
    /\ out = <<>>

\* the number of lines of each section
Len1 == IF only1 = {} THEN 0 ELSE 1 + Cardinality(only1)
Len2 == IF only2 = {} THEN 0 ELSE 1 + Cardinality(only2)
Len3 == IF DOMAIN different = {} THEN 0 ELSE 2 + Cardinality(DOMAIN different)

IsHeader1(l) == l.fmt = "Jobs only in the {}:" /\ l.labels = <<argv[2]>>
IsHeader2(l) == l.fmt = "Jobs only in the {}:" /\ l.labels = <<argv[3]>>
IsHeader3(l) == l.fmt = "Jobs with different outcomes:"

\* C6: a section of the report is printed if and only if its set or mapping
\* (onlyA, onlyB, changed) is non-empty, the sections printed come in that
\* order, and when all three are empty nothing is written to the output.
C6_Sections ==
    /\ pc[1] \in {"main", "open", "extractfile", "read", "simplify", "diff",
                  "report1"} => out = <<>>
    /\ pc[1] = "report2" => Len(out) = Len1
    /\ pc[1] = "report3" => Len(out) = Len1 + Len2
    /\ pc[1] \in {"return", "exited"} => Len(out) = Len1 + Len2 + Len3
    /\ Len(argv) = 3 =>
          \A i \in DOMAIN out :
              /\ IsHeader1(out[i]) <=> (only1 # {} /\ i = 1)
              /\ IsHeader2(out[i]) <=> (only2 # {} /\ i = Len1 + 1)
              /\ IsHeader3(out[i]) <=>
                    (DOMAIN different # {} /\ i = Len1 + Len2 + 1)
    /\ (pc[1] \in {"return", "exited"}
           /\ only1 = {} /\ only2 = {} /\ DOMAIN different = {}) => out = <<>>

\* a run that printed all three sections has ended
C6_Witness ==
    /\ pc = Step("exited")
    /\ only1 # {}
    /\ only2 # {}
    /\ DOMAIN different # {}
    /\ IsHeader1(out[1])
    /\ IsHeader3(out[Len1 + Len2 + 1])

\* C7: a run with an argument count other than 2, or in which extracting or
\* simplifying either submission fails, writes no report line and ends with a
\* non-zero exit status; with a wrong argument count no archive is opened and
\* the usage message goes to the error stream.
C7_FailureAborts ==
    /\ err # <<>> =>
          /\ pc = Step("exited")
          /\ exitStatus > 0
          /\ out = <<>>
    /\ (pc = Step("exited") /\ exitStatus = 0) => err = <<>>
    /\ Len(argv) # 3 =>
          /\ pc[1] \in {"main", "exited"}
          /\ handles = {}
          /\ pc[1] = "exited" =>
                /\ err = <<<<"SystemExit", Usage>>>>
                /\ exitStatus > 0
                /\ out = <<>>
    /\ Len(argv) = 3 => \A i \in DOMAIN err : err[i][1] # "SystemExit"

\* the second submission failed after the first was simplified
C7_Witness ==
    /\ pc = Step("exited")
    /\ submission1 # EmptyDict
    /\ err # <<>>
    /\ err[1][1] = "KeyError"
    /\ exitStatus = 1
    /\ out = <<>>

\* a before b in lexicographic order: b continues a, or at the first place
\* where they differ a has the smaller code point
LexBefore(a, b) ==
    \/ Len(a) < Len(b) /\ \A i \in 1..Len(a) : a[i] = b[i]
    \/ \E k \in 1..Len(a) :
          /\ k <= Len(b)
          /\ \A i \in 1..(k - 1) : a[i] = b[i]
          /\ a[k] < b[k]

\* text has o in it
Shows(text, o) ==
    \E k \in 0..(Len(text) - Len(o)) : SubSeq(text, k + 1, k + Len(o)) = o

\* lines first+1 .. first+Cardinality(only) of out are the job lines of the
\* section of `only`
JobLines(first, only, submission) ==
    /\ \A j \in only :
          Cardinality({i \in 1..Cardinality(only) : out[first + i].args[1] = j}) = 1
    /\ \A i \in 1..Cardinality(only) :
          /\ out[first + i].fmt = "  '{}': '{}'"
          /\ out[first + i].args[1] \in only
          /\ out[first + i].args[1] \in DOMAIN submission
          /\ Shows(out[first + i].args[2], submission[out[first + i].args[1]])
    /\ \A i, k \in 1..Cardinality(only) :
          i < k => LexBefore(out[first + i].args[1], out[first + k].args[1])

\* C8: section 1 has exactly one line per identifier of onlyA, in strictly
\* ascending lexicographic order of identifier, each with the outcome the
\* identifier has in submission A; section 2 likewise for onlyB and submission
\* B; no identifier is printed in more than one section.
C8_SortedLines ==
    /\ pc[1] \in {"report2", "report3", "return", "exited"} =>
          JobLines(1, only1, submission1)
    /\ pc[1] \in {"report3", "return", "exited"} =>
          JobLines(Len1 + 1, only2, submission2)
    /\ \A i, k \in DOMAIN out :
          (i # k /\ out[i].args # <<>> /\ out[k].args # <<>>) =>
              out[i].args[1] # out[k].args[1]

\* a run that printed two jobs in each of the first two sections, "job10" and
\* "job2" among them, has ended
C8_Witness ==
    /\ pc = Step("exited")
    /\ only1 = {job10, job2}
    /\ Cardinality(only2) = 2
    /\ out[2].args[1] = job10
    /\ out[3].args[1] = job2

\* C10: at most one archive handle is open at any time; the first archive's
\* handle is closed before the first submission is simplified and before the
\* second archive is opened; none is open while diffing and reporting; and the
\* handle is released when member lookup, reading or parsing fails.
C10_ScopedHandles ==
    /\ Cardinality(handles) <= 1
    /\ pc[1] \in {"extractfile", "read"} => handles = {pc[2]}
    /\ pc[1] \in {"main", "open", "simplify", "diff", "report1", "report2",
                  "report3", "return", "exited"} => handles = {}

\* the second archive's member was no JSON, after the first was simplified
C10_Witness ==
    /\ pc = Step("exited")
    /\ submission1 # EmptyDict
    /\ err # <<>>
    /\ err[1][1] = "JSONDecodeError"
    /\ handles = {}

====
